---- MODULE Spec2Model ----
(***************************************************************************)
(* Model of custom_components/edilkamin/config_flow.py: the two-step       *)
(* configuration wizard (MAC entry or DHCP discovery, then credentials).   *)
(*                                                                         *)
(* Strings that the code inspects character by character (MAC addresses)   *)
(* are sequences of one-character strings; the other strings (user names,  *)
(* passwords, names, error codes) are plain strings.  A Python dict is a   *)
(* function whose DOMAIN is its key set.                                   *)
(***************************************************************************)
EXTENDS Naturals, Sequences, FiniteSets, TLC

\* ------------------------------------------------------------------ bounds
MaxFlows == 2
NumDevices == 2

\* ------------------------------------------------------------ dict keys
CONF_MAC == "mac"
CONF_USERNAME == "username"
CONF_PASSWORD == "password"
CONF_NAME == "name"

DefaultName == "Pellet Stove"

\* Python's None for values that are otherwise MAC strings.
None == <<"<None>">>

\* ---------------------------------------------------------------- strings
HexLower == <<"0", "1", "2", "3", "4", "5", "6", "7", "8", "9", "a", "b", "c", "d", "e", "f">>
HexUpper == <<"0", "1", "2", "3", "4", "5", "6", "7", "8", "9", "A", "B", "C", "D", "E", "F">>

Range(s) == {s[i] : i \in DOMAIN s}

HexChars == Range(HexLower) \cup Range(HexUpper)

\* str.lower() on one character
LowerChar(c) ==
  IF \E i \in DOMAIN HexUpper : HexUpper[i] = c
  THEN HexLower[CHOOSE i \in DOMAIN HexUpper : HexUpper[i] = c]
  ELSE c

UpperChar(c) ==
  IF \E i \in DOMAIN HexLower : HexLower[i] = c
  THEN HexUpper[CHOOSE i \in DOMAIN HexLower : HexLower[i] = c]
  ELSE c

\* str.lower()
LowerStr(s) == [i \in DOMAIN s |-> LowerChar(s[i])]

\* str.count(c) for a one-character c
Count(s, c) == Cardinality({i \in DOMAIN s : s[i] = c})

\* str.replace(c, "") for a one-character c
Remove(s, c) == SelectSeq(s, LAMBDA x : x # c)

\* ":".join(s[i:i+2] for i in range(0, 12, 2)) for a 12-character s
ColonJoin(s) ==
  [i \in 1..17 |-> IF i % 3 = 0 THEN ":" ELSE s[2 * (i \div 3) + (i % 3)]]

\* homeassistant.helpers.device_registry.format_mac, as called by the flow
format_mac(mac) ==
  IF Len(mac) = 17 /\ Count(mac, ":") = 5
  THEN LowerStr(mac)
  ELSE LET to_test == IF Len(mac) = 17 /\ Count(mac, "-") = 5
                      THEN Remove(mac, "-")
                      ELSE IF Len(mac) = 14 /\ Count(mac, ".") = 2
                           THEN Remove(mac, ".")
                           ELSE mac
       IN  IF Len(to_test) = 12
           THEN ColonJoin(LowerStr(to_test))
           ELSE mac

\* utils.is_valid_mac_address: six groups of two hex digits, separated by one
\* consistent delimiter (":" or "-") or by nothing
is_valid_mac_address(s) ==
  \/ /\ Len(s) = 12
     /\ \A i \in 1..12 : s[i] \in HexChars
  \/ /\ Len(s) = 17
     /\ s[3] \in {":", "-"}
     /\ \A i \in 1..17 : IF i % 3 = 0 THEN s[i] = s[3] ELSE s[i] \in HexChars

\* ------------------------------------------------------------------ inputs
Flows == 1..MaxFlows
Devices == 1..NumDevices

\* the twelve (lowercase) hex digits of device d's address
Digits(d) == [i \in 1..12 |-> HexLower[((d * 5 + i) % 16) + 1]]

Styles == {"colon", "hyphen", "bare"}
Cases == {"lower", "upper", "mixed"}

Delimited(s, c) == [i \in 1..17 |-> IF i % 3 = 0 THEN c ELSE s[2 * (i \div 3) + (i % 3)]]

\* the address of device d written in a delimiter style and a letter case
Render(d, style, case) ==
  LET hex == [i \in 1..12 |->
                IF case = "upper" \/ (case = "mixed" /\ i % 2 = 1)
                THEN UpperChar(Digits(d)[i])
                ELSE Digits(d)[i]]
  IN  CASE style = "colon" -> Delimited(hex, ":")
        [] style = "hyphen" -> Delimited(hex, "-")
        [] OTHER -> hex

\* colon-separated lowercase form of device d's address
Canonical(d) == Render(d, "colon", "lower")

\* every way of writing a device's address
WellFormedMacs == {Render(d, st, ca) : d \in Devices, st \in Styles, ca \in Cases}

\* strings that are not six groups of two hex digits
MalformedMacs ==
  { <<"n", "o", "t", "-", "a", "-", "m", "a", "c">>,
    <<>>,
    SubSeq(Digits(1), 1, 11),
    Digits(1) \o <<"0">>,
    [Digits(1) EXCEPT ![4] = "g"],
    [Canonical(1) EXCEPT ![6] = "-"],
    [Canonical(1) EXCEPT ![2] = ":", ![3] = "a"] }

\* what a user may type in the MAC field
MacInputs == WellFormedMacs \cup MalformedMacs

\* addresses delivered by DHCP discovery
DiscoveredMacs == {Render(d, "bare", "lower") : d \in Devices} \cup {Render(1, "colon", "upper")}

Usernames == {"user"}
Passwords == {"pass", "1234"}
Names == {"Kitchen"}

\* a dict is a function on its key set; None (no input) is the empty function
NoInput == <<>>
IsNone(user_input) == DOMAIN user_input = {}

\* submissions of the MAC form (STEP_USER_DATA_SCHEMA)
UserInputs == {[k \in {CONF_MAC} |-> m] : m \in MacInputs}

\* submissions of the credential form (STEP_CRED_DATA_SCHEMA); the name is optional
CredInputs ==
  {[k \in {CONF_USERNAME, CONF_PASSWORD} |-> IF k = CONF_USERNAME THEN u ELSE p] :
      u \in Usernames, p \in Passwords}
  \cup
  {[k \in {CONF_USERNAME, CONF_PASSWORD, CONF_NAME} |->
      IF k = CONF_USERNAME THEN u ELSE IF k = CONF_PASSWORD THEN p ELSE n] :
      u \in Usernames, p \in Passwords, n \in Names}

\* outcomes of the external call edilkamin.sign_in: a returned token (truthy
\* or falsy) or a raised exception, identified by its class name
Returned(token) == [kind |-> "return", value |-> token]
Raised(cls) == [kind |-> "raise", value |-> cls]
Tokens == {"eyJraWQ", ""}
ExceptionClasses == {"NotAuthorizedException", "ConnectionError", "ValueError"}
SignInOutcomes == {Returned(t) : t \in Tokens} \cup {Raised(c) : c \in ExceptionClasses}

\* Python truthiness of a token
Truthy(token) == token # ""

\* ------------------------------------------------------- pure code paths
\* authenticate without the test of the exception's class name
authenticate_no_name_check(outcome) ==
  IF outcome.kind = "raise"
  THEN Raised("CannotConnect")
  ELSE Returned(outcome.value)

\* EdilkaminHub.authenticate: the token, or the exception it raises
authenticate(outcome) ==
  IF outcome.kind = "raise"
  THEN IF outcome.value = "NotAuthorizedException"
       THEN Raised("InvalidAuth")
       ELSE Raised("CannotConnect")
  ELSE Returned(outcome.value)

\* validate_input without the default of the name
validate_input_data_no_default(data) == data

\* validate_input before the sign-in call: the in-place default of the name
validate_input_data(data) ==
  IF CONF_NAME \notin DOMAIN data
  THEN [k \in DOMAIN data \cup {CONF_NAME} |-> IF k = CONF_NAME THEN DefaultName ELSE data[k]]
  ELSE data

\* validate_input without the test of the token
validate_input_no_token_check(outcome) ==
  LET token == authenticate(outcome)
  IN  IF token.kind = "raise" THEN token ELSE Returned("{}")

\* validate_input from the sign-in call on: returns {} or raises
validate_input(outcome) ==
  LET token == authenticate(outcome)
  IN  IF token.kind = "raise" THEN token
      ELSE IF ~Truthy(token.value) THEN Raised("InvalidAuth")
      ELSE Returned("{}")

\* except clauses that report every exception as unknown
cred_errors_all_unknown(exception) == "unknown"

\* the except clauses of async_step_cred: errors["base"]
cred_errors(exception) ==
  CASE exception = "CannotConnect" -> "cannot_connect"
    [] exception = "InvalidAuth" -> "invalid_auth"
    [] OTHER -> "unknown"

\* self.data | user_input
merge(data, user_input) ==
  [k \in DOMAIN data \cup DOMAIN user_input |->
     IF k \in DOMAIN user_input THEN user_input[k] ELSE data[k]]

\* the submitted MAC stored as typed
user_mac_raw(user_input) == user_input[CONF_MAC]

\* the MAC async_step_user stores for an accepted submission
user_mac(user_input) == format_mac(user_input[CONF_MAC])

\* the check async_step_user makes on a submission
user_mac_ok(user_input) == is_valid_mac_address(user_input[CONF_MAC])

\* ------------------------------------------------------------------- state
\* flows[f]: the ConfigFlow instance f and its place in the dialogue
\*   step            "init" (not started), "user" / "cred" (that form is shown),
\*                   "auth" (async_step_cred suspended in the sign-in call),
\*                   "done" (entry created), "abort"
\*   discovered_mac  self._discovered_mac
\*   data            self.data
\*   unique_id       the unique id registered by async_set_unique_id
\*   errors          errors["base"] of the form shown, or the abort reason
\*   user_input      the credential submission being validated (kept once
\*                   the entry is created)
\*   mac_input       history: the MAC given to the last async_step_user call
\*   sign_in         history: the outcome of the sign-in call of the last
\*                   async_step_cred call
\*   dup_at_entry    history: discovery found an entry with its unique id
\*   auth_invoked    history: authenticate was called
\*   cred_shown      history: the credential form was shown
\*   failed          history: a credential submission was rejected
\* entries[f]: the config entry created by flow f, if any
VARIABLES flows, entries

vars == <<flows, entries>>

NoOutcome == [kind |-> "none", value |-> ""]
NoEntry == [unique_id |-> None, title |-> None, data |-> <<>>]
IsEntry(e) == e.title # None

\* ConfigFlow.__init__
NewFlow ==
  [step |-> "init", discovered_mac |-> None, data |-> <<>>, unique_id |-> None,
   errors |-> "", user_input |-> NoInput,
   mac_input |-> None, sign_in |-> NoOutcome, dup_at_entry |-> FALSE,
   auth_invoked |-> FALSE, cred_shown |-> FALSE, failed |-> FALSE]

\* self.data as a class attribute: one dict for all instances
data_owner_shared(f) == 1

\* self.data is created by __init__: each instance f has its own dict
data_owner(f) == f

\* the fields of instance f as its methods read them
self(f) == [flows[f] EXCEPT !.data = flows[data_owner(f)].data]

\* the flows after a method of instance f leaves its fields as fl
update(f, fl) ==
  IF data_owner(f) = f
  THEN [flows EXCEPT ![f] = fl]
  ELSE [flows EXCEPT ![f] = [fl EXCEPT !.data = flows[f].data],
                     ![data_owner(f)].data = fl.data]

Init ==
  /\ flows = [f \in Flows |-> NewFlow]
  /\ entries = [f \in Flows |-> NoEntry]

\* the host starts flows one after the other
NextFlow(f) ==
  /\ flows[f].step = "init"
  /\ \A g \in Flows : g < f => flows[g].step # "init"

InProgress(g) == flows[g].step \in {"user", "cred", "auth"}

\* async_set_unique_id raises already_in_progress when another flow in
\* progress has registered the id
unique_id_in_progress(f, unique_id) ==
  \E g \in Flows \ {f} : InProgress(g) /\ flows[g].unique_id = unique_id

\* _abort_if_unique_id_configured raises already_configured when an entry
\* has the id
unique_id_configured(unique_id) ==
  \E g \in Flows : IsEntry(entries[g]) /\ entries[g].unique_id = unique_id

\* async_show_form(step_id=..., errors=...)
async_show_form(fl, step_id, errors) ==
  [fl EXCEPT !.step = step_id, !.errors = errors, !.user_input = NoInput,
             !.cred_shown = @ \/ step_id = "cred"]

\* AbortFlow(reason)
async_abort(fl, reason) ==
  [fl EXCEPT !.step = "abort", !.errors = reason]

\* async_step_cred without the test for None: validating None raises
async_step_cred_form_unknown(fl) ==
  async_show_form([fl EXCEPT !.sign_in = NoOutcome], "cred", "unknown")

\* async_step_cred(None)
async_step_cred_form(fl) ==
  async_show_form([fl EXCEPT !.sign_in = NoOutcome], "cred", "")

\* _async_handle_discovery without _abort_if_unique_id_configured
async_handle_discovery_no_abort(f, fl) ==
  LET mac == format_mac(fl.discovered_mac)
      fl1 == [fl EXCEPT !.data = merge(@, [k \in {CONF_MAC} |-> mac])]
      fl2 == [fl1 EXCEPT !.unique_id = mac]
  IN  IF unique_id_in_progress(f, mac) THEN async_abort(fl1, "already_in_progress")
      ELSE async_step_cred_form(fl2)

\* _async_handle_discovery, for the flow f whose fields are fl
async_handle_discovery(f, fl) ==
  LET mac == format_mac(fl.discovered_mac)
      fl1 == [fl EXCEPT !.data = merge(@, [k \in {CONF_MAC} |-> mac])]
      fl2 == [fl1 EXCEPT !.unique_id = mac]
  IN  IF unique_id_in_progress(f, mac) THEN async_abort(fl1, "already_in_progress")
      ELSE IF unique_id_configured(mac) THEN async_abort(fl2, "already_configured")
      ELSE async_step_cred_form(fl2)

\* async_step_dhcp
async_step_dhcp(f, macaddress) ==
  /\ NextFlow(f)
  /\ flows' = update(f,
        async_handle_discovery(f,
          [self(f) EXCEPT !.discovered_mac = macaddress,
                          !.dup_at_entry =
                             \E g \in Flows : /\ IsEntry(entries[g])
                                              /\ entries[g].unique_id = format_mac(macaddress)]))
  /\ UNCHANGED entries

\* async_step_user going on to the credential form without storing the MAC
step_user_no_store(fl, user_input) ==
  IF IsNone(user_input) THEN async_show_form([fl EXCEPT !.mac_input = None], "user", "")
  ELSE LET fl1 == [fl EXCEPT !.mac_input = user_input[CONF_MAC]]
       IN  IF ~user_mac_ok(user_input) THEN async_show_form(fl1, "user", "invalid_mac")
           ELSE async_step_cred_form(fl1)

\* async_step_user without the MAC validation
step_user_no_check(fl, user_input) ==
  IF IsNone(user_input) THEN async_show_form([fl EXCEPT !.mac_input = None], "user", "")
  ELSE async_step_cred_form(
         [fl EXCEPT !.mac_input = user_input[CONF_MAC],
                    !.data = merge(@, [k \in {CONF_MAC} |-> user_mac(user_input)])])

\* async_step_user on the fields fl
step_user(fl, user_input) ==
  IF IsNone(user_input) THEN async_show_form([fl EXCEPT !.mac_input = None], "user", "")
  ELSE LET fl1 == [fl EXCEPT !.mac_input = user_input[CONF_MAC]]
       IN  IF ~user_mac_ok(user_input) THEN async_show_form(fl1, "user", "invalid_mac")
           ELSE async_step_cred_form(
                  [fl1 EXCEPT !.data = merge(@, [k \in {CONF_MAC} |-> user_mac(user_input)])])

\* async_step_user: the host calls it with None to start a manual flow, then
\* with each submission of the MAC form
async_step_user(f, user_input) ==
  /\ \/ NextFlow(f) /\ IsNone(user_input)
     \/ flows[f].step = "user"
  /\ flows' = update(f, step_user(self(f), user_input))
  /\ UNCHANGED entries

\* async_step_cred, up to the await of the sign-in call
async_step_cred(f, user_input) ==
  /\ flows[f].step = "cred"
  /\ flows' = update(f,
        IF IsNone(user_input) THEN async_step_cred_form(self(f))
        ELSE [self(f) EXCEPT !.step = "auth", !.user_input = user_input,
                             !.sign_in = NoOutcome, !.auth_invoked = TRUE])
  /\ UNCHANGED entries

\* the entry async_create_entry hands to the host
create_entry(fl, data) ==
  [unique_id |-> fl.unique_id, title |-> data[CONF_MAC], data |-> data]

\* the host adds the entry of flow f; an entry with the same (non-None)
\* unique id is replaced
add_entry(f, entry) ==
  [g \in Flows |->
     IF g = f THEN entry
     ELSE IF entry.unique_id # None /\ IsEntry(entries[g])
             /\ entries[g].unique_id = entry.unique_id
          THEN NoEntry
          ELSE entries[g]]

\* a rejected submission sending the user back to an empty MAC form
cred_form_again_restart(fl, errors) ==
  async_show_form([fl EXCEPT !.failed = TRUE, !.data = NewFlow.data], "user", errors)

\* the form async_step_cred returns when validate_input raised
cred_form_again(fl, errors) ==
  async_show_form([fl EXCEPT !.failed = TRUE], "cred", errors)

\* async_step_cred, from the return of the sign-in call
async_step_cred_resume(f, outcome) ==
  /\ flows[f].step = "auth"
  /\ LET fl == [self(f) EXCEPT !.sign_in = outcome]
         result == validate_input(outcome)
     IN  IF result.kind = "raise"
         THEN /\ flows' = update(f, cred_form_again(fl, cred_errors(result.value)))
              /\ UNCHANGED entries
         ELSE LET data == merge(fl.data, validate_input_data(fl.user_input))
              IN  /\ flows' = update(f, [fl EXCEPT !.data = data, !.step = "done", !.errors = ""])
                  /\ entries' = add_entry(f, create_entry(fl, data))

\* MaxFlows wizards run interleaved, for two stoves: each user types the
\* address of one of them in one writing, or a string that is no address
NotAMac == <<"n", "o", "t", "-", "a", "-", "m", "a", "c">>
TypedMacs == {Render(1, "hyphen", "upper"), Render(2, "hyphen", "upper"), NotAMac}

\* ... and discovery delivers the address of one of them
SeenMacs == {Render(1, "bare", "lower"), Render(2, "bare", "lower"), Render(1, "colon", "upper")}

\* ... and submits one password without a name or the other with a name
TypedCreds ==
  {ui \in CredInputs : (CONF_NAME \in DOMAIN ui) = (ui[CONF_PASSWORD] = "1234")}

Next ==
  \/ \E f \in Flows, m \in SeenMacs : async_step_dhcp(f, m)
  \/ \E f \in Flows, ui \in {u \in UserInputs : u[CONF_MAC] \in TypedMacs} \cup {NoInput} :
        async_step_user(f, ui)
  \/ \E f \in Flows, ui \in TypedCreds \cup {NoInput} : async_step_cred(f, ui)
  \/ \E f \in Flows, o \in SignInOutcomes : async_step_cred_resume(f, o)

Spec == Init /\ [][Next]_vars

\* one wizard, over every input of the two forms
NextWizard ==
  \/ \E m \in DiscoveredMacs : async_step_dhcp(1, m)
  \/ \E ui \in UserInputs \cup {NoInput} : async_step_user(1, ui)
  \/ \E ui \in CredInputs \cup {NoInput} : async_step_cred(1, ui)
  \/ \E o \in SignInOutcomes : async_step_cred_resume(1, o)

SpecWizard == Init /\ [][NextWizard]_vars

\* --------------------------------------------------------------- shape
TypeOK ==
  /\ \A f \in Flows :
       /\ flows[f].step \in {"init", "user", "cred", "auth", "done", "abort"}
       /\ DOMAIN flows[f].data \subseteq {CONF_MAC, CONF_USERNAME, CONF_PASSWORD, CONF_NAME}

\* -------------------------------------------------------------- claims
AllKeys == {CONF_MAC, CONF_USERNAME, CONF_PASSWORD, CONF_NAME}

\* flow f has just returned from the sign-in call with this outcome
Resumed(f, outcome) == flows[f].step = "auth" /\ flows'[f].sign_in = outcome

\* the step of f re-presented the credential form with this error and
\* changed neither self.data nor the entries
CredFormAgain(f, error) ==
  /\ flows'[f].step = "cred"
  /\ flows'[f].errors = error
  /\ flows'[f].data = flows[f].data
  /\ entries' = entries

\* C1: no two persisted entries have the same MAC.
C1_MacUnique ==
  \A f, g \in Flows :
    (f # g /\ IsEntry(entries[f]) /\ IsEntry(entries[g]))
      => entries[f].data[CONF_MAC] # entries[g].data[CONF_MAC]

\* C2: the unique id registered for every created entry is the MAC stored
\* in the entry's data.
C2_UniqueIdIsMac ==
  \A f \in Flows :
    IsEntry(entries[f]) => entries[f].unique_id = entries[f].data[CONF_MAC]

\* C3: a discovery whose normalized MAC is the unique id of an existing
\* entry aborts: that flow never calls authenticate, never shows the
\* credential form and creates no entry.
C3_RediscoveryAborts ==
  \A f \in Flows :
    flows[f].dup_at_entry =>
      /\ flows[f].step = "abort"
      /\ ~flows[f].auth_invoked
      /\ ~flows[f].cred_shown
      /\ ~IsEntry(entries[f])

C3_Witness ==
  \E f \in Flows : flows[f].dup_at_entry /\ flows[f].step = "abort"

\* C4: the entry created by a successful credential submission is the merge
\* of self.data and the submission: the MAC stored by the first step, the
\* submitted username and password, and the submitted name or "Pellet Stove".
C4_EntryIsMerge ==
  [][\A f \in Flows :
       (flows[f].step = "auth" /\ flows'[f].step = "done") =>
         LET ui == flows[f].user_input
             e == entries'[f]
         IN  /\ IsEntry(e)
             /\ DOMAIN e.data = AllKeys
             /\ e.data[CONF_MAC] = flows[f].data[CONF_MAC]
             /\ e.data[CONF_USERNAME] = ui[CONF_USERNAME]
             /\ e.data[CONF_PASSWORD] = ui[CONF_PASSWORD]
             /\ e.data[CONF_NAME] = IF CONF_NAME \in DOMAIN ui THEN ui[CONF_NAME] ELSE "Pellet Stove"]_vars

C4_Witness ==
  \E f \in Flows :
    /\ flows[f].step = "done"
    /\ IsEntry(entries[f])
    /\ CONF_NAME \notin DOMAIN flows[f].user_input
    /\ entries[f].data[CONF_NAME] = "Pellet Stove"
    /\ entries[f].data[CONF_PASSWORD] = flows[f].user_input[CONF_PASSWORD]

\* C5: a submitted MAC that fails the syntax validation re-presents the MAC
\* form with invalid_mac; no MAC is stored, authenticate is not called and no
\* entry is created.
C5_InvalidMacRejected ==
  \A f \in Flows :
    (flows[f].mac_input # None /\ ~is_valid_mac_address(flows[f].mac_input)) =>
      /\ flows[f].step = "user"
      /\ flows[f].errors = "invalid_mac"
      /\ flows[f].data = NewFlow.data
      /\ ~flows[f].auth_invoked
      /\ ~flows[f].cred_shown
      /\ ~IsEntry(entries[f])

C5_Witness ==
  \E f \in Flows :
    /\ flows[f].mac_input = NotAMac
    /\ flows[f].step = "user"
    /\ flows[f].errors = "invalid_mac"

\* C6: when the sign-in call raises the bad-credentials exception, the
\* credential form is shown again with invalid_auth, self.data (the MAC) is
\* unchanged and no entry is created.
C6_BadCredentials ==
  [][\A f \in Flows :
       Resumed(f, Raised("NotAuthorizedException")) => CredFormAgain(f, "invalid_auth")]_vars

C6_Witness ==
  \E f \in Flows :
    /\ flows[f].sign_in = Raised("NotAuthorizedException")
    /\ flows[f].step = "cred"
    /\ flows[f].errors = "invalid_auth"
    /\ CONF_MAC \in DOMAIN flows[f].data

\* C7: every exception of the sign-in call other than the bad-credentials
\* one gives cannot_connect, and only the bad-credentials one gives
\* invalid_auth; the credential form is shown again, self.data is unchanged
\* and no entry is created.
C7_ExceptionsFolded ==
  [][\A f \in Flows, c \in ExceptionClasses :
       Resumed(f, Raised(c)) =>
         CredFormAgain(f, IF c = "NotAuthorizedException" THEN "invalid_auth"
                                                          ELSE "cannot_connect")]_vars

C7_Witness ==
  \E f \in Flows :
    /\ flows[f].sign_in = Raised("ValueError")
    /\ flows[f].step = "cred"
    /\ flows[f].errors = "cannot_connect"

\* The except clause for any other exception is never taken: no form carries
\* the error unknown.
UnknownNeverShown == \A f \in Flows : flows[f].errors # "unknown"

\* C9: when the sign-in call returns a falsy token, the credential form is
\* shown again with invalid_auth and no entry is created.
C9_FalsyToken ==
  [][\A f \in Flows :
       Resumed(f, Returned("")) => CredFormAgain(f, "invalid_auth")]_vars

C9_Witness ==
  \E f \in Flows :
    /\ flows[f].sign_in = Returned("")
    /\ flows[f].step = "cred"
    /\ flows[f].errors = "invalid_auth"

\* C10: every way of writing a device's twelve hex digits (colon, hyphen or
\* no delimiter, any letter case) is accepted by the MAC form, and what is
\* stored is the colon-separated lowercase form of the address, the same for
\* all writings.
C10_WritingsNormalize ==
  \A f \in Flows, d \in Devices, st \in Styles, ca \in Cases :
    flows[f].mac_input = Render(d, st, ca) =>
      /\ flows[f].step \in {"cred", "auth", "done"}
      /\ flows[f].data[CONF_MAC] = Canonical(d)

C10_Witness ==
  \E f \in Flows :
    /\ flows[f].mac_input = Render(1, "hyphen", "mixed")
    /\ flows[f].step = "cred"
    /\ flows[f].data[CONF_MAC] = Canonical(1)

\* the dialogue states in order: not started, MAC form, credential form
\* (shown or being validated), finished
Rank(step) ==
  CASE step = "init" -> 0
    [] step = "user" -> 1
    [] step \in {"cred", "auth"} -> 2
    [] OTHER -> 3

\* C11: a flow only moves forward (MAC form, credential form, completed): no
\* step takes it back, a finished flow never changes again, the credential
\* step is reached only with a MAC stored, and every entry has a MAC.
C11_ForwardOnly ==
  [][\A f \in Flows :
       /\ Rank(flows'[f].step) >= Rank(flows[f].step)
       /\ flows[f].step \in {"done", "abort"} => flows'[f] = flows[f]
       /\ flows'[f].step \in {"cred", "auth", "done"} => CONF_MAC \in DOMAIN flows'[f].data
       /\ IsEntry(entries'[f]) => CONF_MAC \in DOMAIN entries'[f].data]_vars

C11_Witness ==
  \E f \in Flows :
    /\ flows[f].step = "done"
    /\ flows[f].failed
    /\ flows[f].mac_input \in TypedMacs
    /\ IsEntry(entries[f])
    /\ CONF_MAC \in DOMAIN entries[f].data

\* no value of the dict is a token of the sign-in call
NoToken(data) ==
  /\ DOMAIN data \subseteq AllKeys
  /\ \A k \in DOMAIN data \ {CONF_MAC} : data[k] \notin Tokens

\* C12: a flow creates an entry only when its credential submission returns
\* from a sign-in call that gave a truthy token, and it creates at most one:
\* it had none before and is finished afterwards; the token is stored neither
\* in the entry nor in self.data.
C12_EntryOnlyOnToken ==
  [][\A f \in Flows :
       /\ (entries'[f] # entries[f] /\ IsEntry(entries'[f])) =>
            /\ ~IsEntry(entries[f])
            /\ flows[f].step = "auth"
            /\ flows'[f].step = "done"
            /\ flows'[f].sign_in.kind = "return"
            /\ Truthy(flows'[f].sign_in.value)
            /\ NoToken(entries'[f].data)
       /\ flows[f].step = "done" => flows'[f].step = "done"
       /\ NoToken(flows'[f].data)]_vars

C12_Witness ==
  \E f \in Flows :
    /\ flows[f].step = "done"
    /\ IsEntry(entries[f])
    /\ flows[f].sign_in = Returned("eyJraWQ")
    /\ DOMAIN entries[f].data = AllKeys

\* the device whose address the string s writes
\* the writings and the canonical form of each device's address
WritingsOf == [d \in Devices |-> {Render(d, st, ca) : st \in Styles, ca \in Cases}]
CanonicalOf == [d \in Devices |-> Canonical(d)]
DeviceOf(s) == CHOOSE d \in Devices : s \in WritingsOf[d]

\* the address given to flow f, by discovery or in the MAC form
Entered(f) ==
  IF flows[f].discovered_mac # None THEN flows[f].discovered_mac ELSE flows[f].mac_input

\* C13: a rejected credential submission leaves the flow at the credential
\* form with self.data unchanged, and a submission accepted after rejected
\* ones completes the flow: the entry has the MAC entered at the start and
\* the username, password and name of the accepted submission only.
C13_RecoverAfterFailure ==
  [][\A f \in Flows, o \in SignInOutcomes :
       Resumed(f, o) =>
         IF o.kind = "return" /\ Truthy(o.value)
         THEN flows[f].failed =>
                /\ flows'[f].step = "done"
                /\ IsEntry(entries'[f])
                /\ entries'[f].data =
                     [k \in AllKeys |->
                        IF k = CONF_MAC THEN CanonicalOf[DeviceOf(Entered(f))]
                        ELSE IF k \in DOMAIN flows[f].user_input THEN flows[f].user_input[k]
                        ELSE "Pellet Stove"]
         ELSE /\ flows'[f].step = "cred"
              /\ flows'[f].failed
              /\ flows'[f].data = flows[f].data
              /\ Entered(f)' = Entered(f)]_vars

C13_Witness ==
  \E f \in Flows :
    /\ flows[f].step = "done"
    /\ flows[f].failed
    /\ flows[f].discovered_mac = Render(1, "bare", "lower")
    /\ IsEntry(entries[f])
    /\ entries[f].data[CONF_MAC] = Canonical(1)
    /\ entries[f].data[CONF_PASSWORD] = "1234"

\* the step taken is a call of a method of instance f, with the input that
\* the fields of f record afterwards
OwnStep(f) ==
  \/ async_step_dhcp(f, flows'[f].discovered_mac)
  \/ async_step_user(f, IF flows'[f].mac_input = None THEN NoInput
                        ELSE [k \in {CONF_MAC} |-> flows'[f].mac_input])
  \/ async_step_cred(f, flows'[f].user_input)
  \/ async_step_cred_resume(f, flows'[f].sign_in)

\* C14: flows running at the same time do not interfere, also while one is
\* suspended in the sign-in call: the fields of a flow change only in a call
\* of one of its own methods, and an entry holds the MAC and the credentials
\* entered in the flow that created it.
C14_NoInterference ==
  [][\A f \in Flows :
       /\ flows'[f] # flows[f] => OwnStep(f)
       /\ IsEntry(entries'[f]) =>
            entries'[f].data =
              [k \in AllKeys |->
                 IF k = CONF_MAC THEN CanonicalOf[DeviceOf(Entered(f)')]
                 ELSE IF k \in DOMAIN flows'[f].user_input THEN flows'[f].user_input[k]
                 ELSE "Pellet Stove"]]_vars

C14_Witness ==
  \E f, g \in Flows :
    /\ f # g
    /\ flows[f].step = "auth"
    /\ flows[g].step = "auth"
    /\ flows[f].data[CONF_MAC] = Canonical(1)
    /\ flows[g].data[CONF_MAC] = Canonical(2)
    /\ flows[f].user_input[CONF_PASSWORD] # flows[g].user_input[CONF_PASSWORD]

\* six pairs of lowercase hex digits separated by colons
IsCanonicalForm(s) ==
  /\ Len(s) = 17
  /\ \A i \in 1..17 : IF i % 3 = 0 THEN s[i] = ":" ELSE s[i] \in Range(HexLower)

\* C15: the MAC of every entry is in canonical form (six lowercase hex pairs
\* separated by colons), whether the flow was started by the MAC form, which
\* validates then normalizes, or by discovery, which only normalizes.
C15_EntryMacCanonical ==
  \A f \in Flows :
    IsEntry(entries[f]) =>
      /\ IsCanonicalForm(entries[f].data[CONF_MAC])
      /\ entries[f].title = entries[f].data[CONF_MAC]

C15_Witness ==
  \E f \in Flows :
    /\ IsEntry(entries[f])
    /\ flows[f].discovered_mac = Render(1, "colon", "upper")
    /\ entries[f].data[CONF_MAC] = Canonical(1)

\* the call left self.data, the authenticate history and the entries as
\* they were
NothingDone(f) ==
  /\ flows'[f].data = flows[f].data
  /\ flows'[f].auth_invoked = flows[f].auth_invoked
  /\ entries' = entries

\* C16: a step called without input only shows its form: async_step_user
\* shows the MAC form, async_step_cred shows the credential form without
\* error, also when it is first shown after an accepted MAC or a new
\* discovery; authenticate is not called, no entry is created and the stored
\* MAC does not change.
C16_NoInputShowsForm ==
  [][\A f \in Flows :
       /\ async_step_user(f, NoInput) =>
            /\ flows'[f].step = "user"
            /\ flows'[f].errors = ""
            /\ NothingDone(f)
       /\ async_step_cred(f, NoInput) =>
            /\ flows'[f].step = "cred"
            /\ flows'[f].errors = ""
            /\ NothingDone(f)
       /\ (flows[f].step \in {"init", "user"} /\ flows'[f].step = "cred") =>
            /\ flows'[f].errors = ""
            /\ ~flows'[f].auth_invoked
            /\ CONF_MAC \in DOMAIN flows'[f].data
            /\ entries' = entries]_vars

C16_Witness ==
  \E f \in Flows :
    /\ flows[f].step = "cred"
    /\ flows[f].failed
    /\ flows[f].sign_in = NoOutcome
    /\ flows[f].errors = ""

====
